---- MODULE Spec2Model ----
(***************************************************************************)
(* Model of the two Lambda request handlers of the repository:             *)
(*   - the Greeter        (src/lambda_function.py)                         *)
(*   - the IP-Extractor   (src/lambda_SAM/.aws-sam/build/lambdaSAM/        *)
(*                         lambda_function.py)                             *)
(*                                                                         *)
(* Representation of Python values                                         *)
(*   - a str that the code takes apart (strip, split, int) is a sequence   *)
(*     of one-character strings; a str literal the code only passes on     *)
(*     (error texts, status words, header values) is a TLA+ string;        *)
(*   - a dict is a function whose DOMAIN is its set of keys, so            *)
(*     `k in d` is  k \in DOMAIN d  and {} is the empty function;          *)
(*   - None is NoneStr where a str is expected and NoneMap where a         *)
(*     mapping is expected.                                                *)
(***************************************************************************)
EXTENDS Integers, Sequences, FiniteSets, TLC

VARIABLES
    handler,        \* which entry point was invoked: "greeter" | "ip" | "get_client_ip"
    event,          \* the event mapping the caller passed
    context,        \* the invocation context the caller passed
    pc,             \* position of the invocation in the handler
    query_params,   \* Greeter local
    is_valid,       \* local of both handlers
    error_message,  \* local of both handlers
    name,           \* Greeter local
    age,            \* Greeter local
    status_code,    \* Greeter local
    client_ip,      \* IP-Extractor local (and the result of a direct get_client_ip call)
    response_body,  \* Greeter response_body / IP-Extractor response_data
    metrics,        \* the dicts log_request_metrics has passed to logger.info
    responses,      \* the response objects returned to the caller, in order
    raised          \* TRUE once an exception has propagated out of lambda_handler

vars == <<handler, event, context, pc, query_params, is_valid,
          error_message, name, age, status_code, client_ip, response_body,
          metrics, responses, raised>>

inputs == <<handler, event, context>>

-----------------------------------------------------------------------------
(* Bounds of the model *)

MaxNameLen   == 2    \* longest 'name' query parameter
MaxAgeLen    == 3    \* longest 'age' query parameter
MaxHeaderLen == 3    \* longest 'x-forwarded-for' header value

NameChars   == {"A", " "}
AgeChars    == {"0", "1", "5", "8", "-"}
HeaderChars == {"1", "2", ",", " "}

SeqsUpTo(S, n) == UNION {[1..k -> S] : k \in 0..n}

-----------------------------------------------------------------------------
(* Python values and built-ins *)

NoneStr  == <<"None">>
NoneMap  == [None |-> <<>>]
EmptyMap == [k \in {} |-> <<>>]

\* bool(s) for a str or None
TruthyStr(s) == s # NoneStr /\ s # <<>>

\* bool(d) for a dict or None
TruthyMap(d) == d # NoneMap /\ DOMAIN d # {}

\* d.get(k, default)
Get(d, k, default) == IF k \in DOMAIN d THEN d[k] ELSE default

Whitespace == {" "}

RECURSIVE lstrip(_)
lstrip(s) == IF s # <<>> /\ Head(s) \in Whitespace THEN lstrip(Tail(s)) ELSE s

RECURSIVE rstrip(_)
rstrip(s) ==
    IF s # <<>> /\ s[Len(s)] \in Whitespace
    THEN rstrip(SubSeq(s, 1, Len(s) - 1))
    ELSE s

\* str.strip()
strip(s) == rstrip(lstrip(s))

\* s.split(',')[0]
split_first(s) ==
    LET commas == {i \in 1..Len(s) : s[i] = ","}
    IN  IF commas = {} THEN s
        ELSE SubSeq(s, 1, (CHOOSE i \in commas : \A j \in commas : i <= j) - 1)

Digits == {"0", "1", "2", "3", "4", "5", "6", "7", "8", "9"}

DigitValue(c) ==
    CASE c = "0" -> 0 [] c = "1" -> 1 [] c = "2" -> 2 [] c = "3" -> 3
      [] c = "4" -> 4 [] c = "5" -> 5 [] c = "6" -> 6 [] c = "7" -> 7
      [] c = "8" -> 8 [] c = "9" -> 9

\* the digits of int(s)'s argument once whitespace and sign are taken off
IntDigits(s) ==
    LET t == strip(s)
    IN  IF t # <<>> /\ Head(t) \in {"-", "+"} THEN Tail(t) ELSE t

\* int(s) does not raise ValueError
IsInt(s) ==
    /\ IntDigits(s) # <<>>
    /\ \A i \in 1..Len(IntDigits(s)) : IntDigits(s)[i] \in Digits

RECURSIVE DigitsValue(_)
DigitsValue(ds) ==
    IF ds = <<>> THEN 0
    ELSE 10 * DigitsValue(SubSeq(ds, 1, Len(ds) - 1)) + DigitValue(ds[Len(ds)])

\* int(s), for an s on which it does not raise
int(s) ==
    LET t == strip(s)
    IN  IF Head(t) = "-" THEN 0 - DigitsValue(IntDigits(s)) ELSE DigitsValue(IntDigits(s))

\* datetime.utcnow().isoformat(): the value is not modelled, only its presence
UtcNow == "<utcnow>"

-----------------------------------------------------------------------------
(* The inputs *)

\* nothing, or the one entry k: v for each v of Values
OptionalEntry(k, Values) == {EmptyMap} \cup {k :> v : v \in Values}

NameStrings   == SeqsUpTo(NameChars, MaxNameLen)
AgeStrings    == SeqsUpTo(AgeChars, MaxAgeLen)
HeaderStrings == SeqsUpTo(HeaderChars, MaxHeaderLen)

\* queryStringParameters: None (as the gateway sends it without a query string) or a dict
QueryParamValues ==
    {NoneMap} \cup
    {n @@ a : n \in OptionalEntry("name", NameStrings),
              a \in OptionalEntry("age", AgeStrings)}

\* requestContext as the Greeter's metrics read it: each of the four fields
\* alone, all of them, none of them, and the enclosing mappings missing
GreeterRequestContexts ==
    { EmptyMap,
      "requestId" :> <<"r">>,
      "http" :> EmptyMap,
      "http" :> [method |-> <<"G">>],
      "http" :> [path |-> <<"/">>],
      "http" :> [sourceIp |-> <<"9">>],
      ("requestId" :> <<"r">>)
        @@ ("http" :> [method |-> <<"G">>, path |-> <<"/">>, sourceIp |-> <<"9">>]) }

\* a 'body' the caller passed as Python bytes, which json.dumps cannot serialise
BytesBody == [bytes |-> <<"b">>]

\* json.dumps(ev) returns, rather than raising TypeError
json_dumps_ok(ev) == ~("body" \in DOMAIN ev /\ ev["body"] = BytesBody)

GreeterEvents ==
    {q @@ r @@ b : q \in OptionalEntry("queryStringParameters", QueryParamValues),
                   r \in OptionalEntry("requestContext", GreeterRequestContexts),
                   b \in OptionalEntry("body", {BytesBody})}

\* requestContext as the IP-Extractor reads it
IpHttpValues ==
    {s @@ m : s \in OptionalEntry("sourceIp", {<<>>, <<"9">>}),
              m \in {EmptyMap, [method |-> <<"G">>], [method |-> <<"G">>, path |-> <<"/">>]}}

IpIdentityValues == OptionalEntry("sourceIp", {<<"7">>})

IpRequestContexts ==
    {h @@ i @@ a : h \in OptionalEntry("http", IpHttpValues),
                   i \in OptionalEntry("identity", IpIdentityValues),
                   a \in OptionalEntry("apiId", {<<>>, <<"a">>})}

IpHeaderValues ==
    OptionalEntry("x-forwarded-for", HeaderStrings) \cup {"host" :> <<"h">>}

IpEvents ==
    {r @@ h @@ b : r \in OptionalEntry("requestContext", IpRequestContexts),
                   h \in OptionalEntry("headers", IpHeaderValues),
                   b \in OptionalEntry("body", {BytesBody})}

\* context: None, the platform's context object, or an object without aws_request_id
NoContext     == [isNone |-> TRUE,  attrs |-> EmptyMap]
LambdaContext == [isNone |-> FALSE, attrs |-> [aws_request_id |-> "req-1"]]
BareContext   == [isNone |-> FALSE, attrs |-> EmptyMap]

ContextValues == {NoContext, LambdaContext, BareContext}

-----------------------------------------------------------------------------
(* Greeter: src/lambda_function.py *)

NoneText == "<None>"    \* None where the code otherwise holds a str literal

\* validate_parameters with the upper age limit off by one
validate_parameters_upper(params) ==
    IF ~TruthyMap(params)
    THEN [is_valid |-> FALSE, error_message |-> "No query parameters provided ya dodo"]
    ELSE LET name_   == strip(Get(params, "name", <<>>))
             age_str == Get(params, "age", <<>>)
         IN  IF ~TruthyStr(name_)
             THEN [is_valid |-> FALSE, error_message |-> "Name parameter is required ya dodo"]
             ELSE IF TruthyStr(age_str)
             THEN IF ~IsInt(age_str)
                  THEN [is_valid |-> FALSE, error_message |-> "Age must be a valid number"]
                  ELSE IF int(age_str) < 0 \/ int(age_str) >= 150
                  THEN [is_valid |-> FALSE, error_message |-> "Age must be between 0 and 150"]
                  ELSE [is_valid |-> TRUE, error_message |-> NoneText]
             ELSE [is_valid |-> TRUE, error_message |-> NoneText]

validate_parameters(params) ==
    IF ~TruthyMap(params)
    THEN [is_valid |-> FALSE, error_message |-> "No query parameters provided ya dodo"]
    ELSE LET name_   == strip(Get(params, "name", <<>>))
             age_str == Get(params, "age", <<>>)
         IN  IF ~TruthyStr(name_)
             THEN [is_valid |-> FALSE, error_message |-> "Name parameter is required ya dodo"]
             ELSE IF TruthyStr(age_str)
             THEN IF ~IsInt(age_str)
                  THEN [is_valid |-> FALSE, error_message |-> "Age must be a valid number"]
                  ELSE IF int(age_str) < 0 \/ int(age_str) > 150
                  THEN [is_valid |-> FALSE, error_message |-> "Age must be between 0 and 150"]
                  ELSE [is_valid |-> TRUE, error_message |-> NoneText]
             ELSE [is_valid |-> TRUE, error_message |-> NoneText]

NA == <<"N", "/", "A">>

\* log_request_metrics reading sourceIp without a default for a missing http mapping
log_request_metrics_ip(ev) ==
    LET rc   == Get(ev, "requestContext", EmptyMap)
        http == Get(rc, "http", EmptyMap)
    IN  [ requestId  |-> Get(rc, "requestId", NA),
          httpMethod |-> Get(http, "method", NA),
          path       |-> Get(http, "path", NA),
          duration   |-> "<duration>ms",
          timestamp  |-> UtcNow,
          sourceIp   |-> Get(http, "sourceIp", NoneStr) ]

\* the dict log_request_metrics passes to logger.info
log_request_metrics(ev) ==
    LET rc   == Get(ev, "requestContext", EmptyMap)
        http == Get(rc, "http", EmptyMap)
    IN  [ requestId  |-> Get(rc, "requestId", NA),
          httpMethod |-> Get(http, "method", NA),
          path       |-> Get(http, "path", NA),
          duration   |-> "<duration>ms",
          timestamp  |-> UtcNow,
          sourceIp   |-> Get(http, "sourceIp", NA) ]

\* str(v) inside an f-string
Format(v) == IF v = NoneStr THEN <<"N", "o", "n", "e">> ELSE v

Hello == <<"H", "e", "l", "l", "o", " ">>

\* status_code_of testing the parsed age for truth, so that age '0' counts as absent
status_code_of_zero(a) == IF TruthyStr(a) /\ int(a) # 0 /\ int(a) < 18 THEN 202 ELSE 200

\* lines 84-87: 200, or 202 for an age below 18
status_code_of(a) == IF TruthyStr(a) /\ int(a) < 18 THEN 202 ELSE 200

\* greeter_response_body greeting the trimmed name
greeter_response_body_trimmed(n, a) ==
    [ message      |-> Hello \o strip(Format(n)) \o <<"!">>,
      age_provided |-> a,
      processed_at |-> UtcNow,
      status       |-> "success" ]

\* lines 89-94: the success payload
greeter_response_body(n, a) ==
    [ message      |-> Hello \o Format(n) \o <<"!">>,
      age_provided |-> a,
      processed_at |-> UtcNow,
      status       |-> "success" ]

\* lines 54-58: start_time, then the debug log of json.dumps(event) inside the try
Greeter_log_event ==
    /\ handler = "greeter" /\ pc = "start"
    /\ pc' = IF json_dumps_ok(event) THEN "validate" ELSE "except"
    /\ UNCHANGED <<inputs, query_params, is_valid, error_message, name, age,
                   status_code, client_ip, response_body, metrics, responses, raised>>

\* lines 61-74: read the query parameters, validate, answer 400 when invalid
Greeter_validate ==
    /\ handler = "greeter" /\ pc = "validate"
    /\ LET got == Get(event, "queryStringParameters", EmptyMap)
           qp  == IF TruthyMap(got) THEN got ELSE EmptyMap
           v   == validate_parameters(qp)
       IN  /\ query_params' = qp
           /\ is_valid' = v.is_valid
           /\ error_message' = v.error_message
           /\ IF ~v.is_valid
              THEN /\ responses' = Append(responses,
                         [ statusCode |-> 400,
                           body |-> [error |-> v.error_message, status |-> "failed"] ])
                   /\ pc' = "done"
              ELSE /\ responses' = responses
                   /\ pc' = "process"
    /\ UNCHANGED <<inputs, name, age, status_code, client_ip, response_body,
                   metrics, raised>>

\* lines 77-94: name, age, the status code and the response body
Greeter_process ==
    /\ handler = "greeter" /\ pc = "process"
    /\ LET n == Get(query_params, "name", NoneStr)
           a == Get(query_params, "age", NoneStr)
       IN  /\ name' = n
           /\ age' = a
           /\ IF TruthyStr(a) /\ ~IsInt(a)
              THEN \* int(age) raises ValueError
                   /\ pc' = "except"
                   /\ UNCHANGED <<status_code, response_body>>
              ELSE /\ status_code' = status_code_of(a)
                   /\ response_body' = greeter_response_body(n, a)
                   /\ pc' = "metrics"
    /\ UNCHANGED <<inputs, query_params, is_valid, error_message, client_ip,
                   metrics, responses, raised>>

\* line 97: the metrics log line
Greeter_log_metrics ==
    /\ handler = "greeter" /\ pc = "metrics"
    /\ metrics' = Append(metrics, log_request_metrics(event))
    /\ pc' = "return"
    /\ UNCHANGED <<inputs, query_params, is_valid, error_message, name, age,
                   status_code, client_ip, response_body, responses, raised>>

\* lines 99-106: the success response
Greeter_return ==
    /\ handler = "greeter" /\ pc = "return"
    /\ responses' = Append(responses,
          [ statusCode |-> status_code,
            headers    |-> [ContentType |-> "application/json", XCustomHeader |-> "Lambda Demo"],
            body       |-> response_body ])
    /\ pc' = "done"
    /\ UNCHANGED <<inputs, query_params, is_valid, error_message, name, age,
                   status_code, client_ip, response_body, metrics, raised>>

\* lines 108-116: except Exception
Greeter_except ==
    /\ handler = "greeter" /\ pc = "except"
    /\ responses' = Append(responses,
          [ statusCode |-> 500,
            body |-> [error |-> "Internal server error", status |-> "error"] ])
    /\ pc' = "done"
    /\ UNCHANGED <<inputs, query_params, is_valid, error_message, name, age,
                   status_code, client_ip, response_body, metrics, raised>>

-----------------------------------------------------------------------------
(* IP-Extractor: src/lambda_SAM/.aws-sam/build/lambdaSAM/lambda_function.py *)

\* get_client_ip returning the forwarded-for entry untrimmed
get_client_ip_untrimmed(ev) ==
    LET rc      == Get(ev, "requestContext", EmptyMap)
        headers == Get(ev, "headers", EmptyMap)
        forwarded ==
            IF TruthyMap(headers) /\ "x-forwarded-for" \in DOMAIN headers
            THEN split_first(headers["x-forwarded-for"])
            ELSE NoneStr
    IN  IF "requestContext" \in DOMAIN ev
        THEN IF "http" \in DOMAIN rc
             THEN Get(rc["http"], "sourceIp", NoneStr)
             ELSE IF "identity" \in DOMAIN rc
             THEN Get(rc["identity"], "sourceIp", NoneStr)
             ELSE forwarded
        ELSE forwarded

\* lines 10-30; on the events above no lookup raises, so the except of lines
\* 28-30 is never entered
get_client_ip(ev) ==
    LET rc      == Get(ev, "requestContext", EmptyMap)
        headers == Get(ev, "headers", EmptyMap)
        forwarded ==
            IF TruthyMap(headers) /\ "x-forwarded-for" \in DOMAIN headers
            THEN strip(split_first(headers["x-forwarded-for"]))
            ELSE NoneStr
    IN  IF "requestContext" \in DOMAIN ev
        THEN IF "http" \in DOMAIN rc
             THEN Get(rc["http"], "sourceIp", NoneStr)
             ELSE IF "identity" \in DOMAIN rc
             THEN Get(rc["identity"], "sourceIp", NoneStr)
             ELSE forwarded
        ELSE forwarded

\* validate_request accepting any requestContext that is present
validate_request_present(ev) ==
    IF "requestContext" \notin DOMAIN ev
    THEN [is_valid |-> FALSE, error_message |-> "Request not from API Gateway"]
    ELSE [is_valid |-> TRUE, error_message |-> ""]

\* lines 32-50; on the events above no lookup raises, so the except of lines
\* 48-50 is never entered
validate_request(ev) ==
    IF "requestContext" \notin DOMAIN ev
    THEN [is_valid |-> FALSE, error_message |-> "Request not from API Gateway"]
    ELSE LET request_context == Get(ev, "requestContext", EmptyMap)
         IN  IF /\ ~TruthyMap(Get(request_context, "http", NoneMap))
                /\ ~TruthyStr(Get(request_context, "apiId", NoneStr))
             THEN [is_valid |-> FALSE, error_message |-> "Invalid API Gateway request context"]
             ELSE [is_valid |-> TRUE, error_message |-> ""]

\* ip_response_data adding method and path whether or not there is an http mapping
ip_response_data_always(ev, ctx, ip) ==
    LET http == Get(Get(ev, "requestContext", EmptyMap), "http", EmptyMap)
    IN  [ message    |-> "Request processed successfully",
          client_ip  |-> ip,
          timestamp  |-> UtcNow,
          request_id |-> IF ~ctx.isNone THEN ctx.attrs["aws_request_id"] ELSE "local-test",
          status     |-> "success",
          method     |-> Get(http, "method", NoneStr),
          path       |-> Get(http, "path", NoneStr) ]

\* lines 93-104: the success payload, for a context whose aws_request_id can be read
ip_response_data(ev, ctx, ip) ==
    [ message    |-> "Request processed successfully",
      client_ip  |-> ip,
      timestamp  |-> UtcNow,
      request_id |-> IF ~ctx.isNone THEN ctx.attrs["aws_request_id"] ELSE "local-test",
      status     |-> "success" ]
    @@ ( IF "requestContext" \in DOMAIN ev /\ "http" \in DOMAIN ev["requestContext"]
         THEN [ method |-> Get(ev["requestContext"]["http"], "method", NoneStr),
                path   |-> Get(ev["requestContext"]["http"], "path", NoneStr) ]
         ELSE EmptyMap )

\* lines 56-57: the two log calls before the try; json.dumps(event) raises
\* TypeError on an event it cannot serialise and nothing catches it
Ip_log_event ==
    /\ handler = "ip" /\ pc = "start"
    /\ IF json_dumps_ok(event)
       THEN pc' = "validate" /\ raised' = raised
       ELSE pc' = "done" /\ raised' = TRUE
    /\ UNCHANGED <<inputs, query_params, is_valid, error_message, name, age,
                   status_code, client_ip, response_body, metrics, responses>>

\* lines 61-74: validate the request source, answer 403 when invalid
Ip_validate ==
    /\ handler = "ip" /\ pc = "validate"
    /\ LET v == validate_request(event)
       IN  /\ is_valid' = v.is_valid
           /\ error_message' = v.error_message
           /\ IF ~v.is_valid
              THEN /\ responses' = Append(responses,
                         [ statusCode |-> 403,
                           headers    |-> [ContentType |-> "application/json"],
                           body       |-> [ error     |-> v.error_message,
                                            status    |-> "failed",
                                            timestamp |-> UtcNow ] ])
                   /\ pc' = "done"
              ELSE /\ responses' = responses
                   /\ pc' = "extract"
    /\ UNCHANGED <<inputs, query_params, name, age, status_code, client_ip,
                   response_body, metrics, raised>>

\* lines 77-90: extract the client IP, answer 400 when there is none
Ip_extract ==
    /\ handler = "ip" /\ pc = "extract"
    /\ client_ip' = get_client_ip(event)
    /\ IF ~TruthyStr(client_ip')
       THEN /\ responses' = Append(responses,
                  [ statusCode |-> 400,
                    headers    |-> [ContentType |-> "application/json"],
                    body       |-> [ error     |-> "Could not determine client IP",
                                     status    |-> "failed",
                                     timestamp |-> UtcNow ] ])
            /\ pc' = "done"
       ELSE /\ responses' = responses
            /\ pc' = "build"
    /\ UNCHANGED <<inputs, query_params, is_valid, error_message, name, age,
                   status_code, response_body, metrics, raised>>

\* lines 93-104: response_data; context.aws_request_id raises AttributeError
\* on a context object that has no such attribute
Ip_build ==
    /\ handler = "ip" /\ pc = "build"
    /\ IF ~context.isNone /\ "aws_request_id" \notin DOMAIN context.attrs
       THEN /\ pc' = "except"
            /\ response_body' = response_body
       ELSE /\ response_body' = ip_response_data(event, context, client_ip)
            /\ pc' = "return"
    /\ UNCHANGED <<inputs, query_params, is_valid, error_message, name, age,
                   status_code, client_ip, metrics, responses, raised>>

\* lines 106-115: the success response
Ip_return ==
    /\ handler = "ip" /\ pc = "return"
    /\ responses' = Append(responses,
          [ statusCode |-> 200,
            headers    |-> [ ContentType   |-> "application/json",
                             XCustomHeader |-> "API Gateway Request" ],
            body       |-> response_body ])
    /\ pc' = "done"
    /\ UNCHANGED <<inputs, query_params, is_valid, error_message, name, age,
                   status_code, client_ip, response_body, metrics, raised>>

\* lines 117-129: except Exception
Ip_except ==
    /\ handler = "ip" /\ pc = "except"
    /\ responses' = Append(responses,
          [ statusCode |-> 500,
            headers    |-> [ContentType |-> "application/json"],
            body       |-> [ error     |-> "Internal server error",
                             status    |-> "failed",
                             timestamp |-> UtcNow ] ])
    /\ pc' = "done"
    /\ UNCHANGED <<inputs, query_params, is_valid, error_message, name, age,
                   status_code, client_ip, response_body, metrics, raised>>

-----------------------------------------------------------------------------
(* The specifications *)

Locals0 ==
    /\ pc = "start"
    /\ query_params = EmptyMap
    /\ is_valid = FALSE
    /\ error_message = NoneText
    /\ name = NoneStr
    /\ age = NoneStr
    /\ status_code = 0
    /\ client_ip = NoneStr
    /\ response_body = EmptyMap
    /\ metrics = <<>>
    /\ responses = <<>>
    /\ raised = FALSE

\* one invocation of one of the two handlers, on any event and context
Init ==
    /\ handler \in {"greeter", "ip"}
    /\ IF handler = "greeter"
       THEN event \in GreeterEvents /\ context = LambdaContext
       ELSE event \in IpEvents /\ context \in ContextValues
    /\ Locals0

Next ==
    \/ Greeter_log_event
    \/ Greeter_validate
    \/ Greeter_process
    \/ Greeter_log_metrics
    \/ Greeter_return
    \/ Greeter_except
    \/ Ip_log_event
    \/ Ip_validate
    \/ Ip_extract
    \/ Ip_build
    \/ Ip_return
    \/ Ip_except

Spec == Init /\ [][Next]_vars

\* a direct call of get_client_ip(event), outside any handler
Call_get_client_ip ==
    /\ handler = "get_client_ip" /\ pc = "start"
    /\ client_ip' = get_client_ip(event)
    /\ pc' = "done"
    /\ UNCHANGED <<inputs, query_params, is_valid, error_message, name, age,
                   status_code, response_body, metrics, responses, raised>>

InitFn ==
    /\ handler = "get_client_ip"
    /\ event \in IpEvents
    /\ context = NoContext
    /\ Locals0

NextFn == Call_get_client_ip

SpecFn == InitFn /\ [][NextFn]_vars

-----------------------------------------------------------------------------
(* Vocabulary of the properties *)

AllWhitespace(s) == \A i \in 1..Len(s) : s[i] \in Whitespace

\* r is the first comma-separated entry of h without its surrounding whitespace
IsTrimmedFirstEntry(h, r) ==
    /\ \A i \in 1..Len(r) : r[i] # ","
    /\ r # <<>> => (r[1] \notin Whitespace /\ r[Len(r)] \notin Whitespace)
    /\ \E a \in 0..Len(h), b \in 0..Len(h) :
          /\ a + Len(r) + b <= Len(h)
          /\ \A i \in 1..a : h[i] \in Whitespace
          /\ \A i \in 1..Len(r) : h[a + i] = r[i]
          /\ \A i \in (a + Len(r) + 1)..(a + Len(r) + b) : h[i] \in Whitespace
          /\ (a + Len(r) + b = Len(h) \/ h[a + Len(r) + b + 1] = ",")

HasHttp(ev) ==
    "requestContext" \in DOMAIN ev /\ "http" \in DOMAIN ev["requestContext"]

HasIdentity(ev) ==
    "requestContext" \in DOMAIN ev /\ "identity" \in DOMAIN ev["requestContext"]

HasForwardedFor(ev) ==
    "headers" \in DOMAIN ev /\ "x-forwarded-for" \in DOMAIN ev["headers"]

\* no requestContext, or one with neither 'http' nor 'apiId'
LacksGatewayContext(ev) ==
    \/ "requestContext" \notin DOMAIN ev
    \/ /\ "http" \notin DOMAIN ev["requestContext"]
       /\ "apiId" \notin DOMAIN ev["requestContext"]

\* the three sources of get_client_ip, each None when it yields no address
SourceHttp(ev) ==
    IF HasHttp(ev) /\ "sourceIp" \in DOMAIN ev["requestContext"]["http"]
    THEN ev["requestContext"]["http"]["sourceIp"] ELSE NoneStr

SourceIdentity(ev) ==
    IF HasIdentity(ev) /\ "sourceIp" \in DOMAIN ev["requestContext"]["identity"]
    THEN ev["requestContext"]["identity"]["sourceIp"] ELSE NoneStr

SourceForwarded(ev) ==
    IF HasForwardedFor(ev)
    THEN strip(split_first(ev["headers"]["x-forwarded-for"])) ELSE NoneStr

\* the IP-Extractor's validate_request call has returned
IpValidated == handler = "ip" /\ error_message # NoneText

\* the Greeter's validate_parameters call has returned, accepting or rejecting
GreeterAccepted == handler = "greeter" /\ is_valid
GreeterRejected == handler = "greeter" /\ ~is_valid /\ error_message # NoneText

\* the query parameters the Greeter validates: {} for a missing or None field
EffectiveParams(ev) ==
    IF "queryStringParameters" \in DOMAIN ev /\ ev["queryStringParameters"] # NoneMap
    THEN ev["queryStringParameters"] ELSE EmptyMap

HasAge(qp) == "age" \in DOMAIN qp /\ qp["age"] # <<>>

\* the error the four checks give, first failing check first; NoneText when all pass
ExpectedError(qp) ==
    IF DOMAIN qp = {} THEN "No query parameters provided ya dodo"
    ELSE IF "name" \notin DOMAIN qp \/ AllWhitespace(qp["name"])
    THEN "Name parameter is required ya dodo"
    ELSE IF HasAge(qp) /\ ~IsInt(qp["age"]) THEN "Age must be a valid number"
    ELSE IF HasAge(qp) /\ int(qp["age"]) \notin 0..150 THEN "Age must be between 0 and 150"
    ELSE NoneText

\* an event's field for the metrics line, 'N/A' when it or an enclosing mapping is missing
ExpectedRequestId(ev) ==
    IF "requestContext" \in DOMAIN ev /\ "requestId" \in DOMAIN ev["requestContext"]
    THEN ev["requestContext"]["requestId"] ELSE NA

ExpectedHttpField(ev, k) ==
    IF HasHttp(ev) /\ k \in DOMAIN ev["requestContext"]["http"]
    THEN ev["requestContext"]["http"][k] ELSE NA

IsSuccessResponse(r) == r.statusCode \in {200, 202}

-----------------------------------------------------------------------------
(* The properties *)

\* C1: in every response of either handler, on every path, the body's status
\* is 'success' exactly when the status code is 2xx, 'failed' exactly when it
\* is 4xx and 'error' exactly when it is 5xx.
C1_StatusMatchesCodeClass ==
    \A i \in 1..Len(responses) :
        LET r == responses[i]
        IN  /\ (r.body.status = "success") <=> (r.statusCode \in 200..299)
            /\ (r.body.status = "failed")  <=> (r.statusCode \in 400..499)
            /\ (r.body.status = "error")   <=> (r.statusCode \in 500..599)

C3_FirstSourceThatYields ==
    (handler = "get_client_ip" /\ pc = "done") =>
        client_ip = IF SourceHttp(event) # NoneStr THEN SourceHttp(event)
                    ELSE IF SourceIdentity(event) # NoneStr THEN SourceIdentity(event)
                    ELSE SourceForwarded(event)

\* C4: on an event with an x-forwarded-for header and neither requestContext.http
\* nor requestContext.identity, get_client_ip returns the first comma-separated
\* entry of the header without its surrounding whitespace.
C4_ForwardedForFirstEntry ==
    ( /\ handler = "get_client_ip" /\ pc = "done"
      /\ HasForwardedFor(event)
      /\ ~HasHttp(event) /\ ~HasIdentity(event) ) =>
        IsTrimmedFirstEntry(event["headers"]["x-forwarded-for"], client_ip)

\* the header '1,2' gave '1'
C4_Witness ==
    /\ handler = "get_client_ip" /\ pc = "done"
    /\ HasForwardedFor(event)
    /\ ~HasHttp(event) /\ ~HasIdentity(event)
    /\ event["headers"]["x-forwarded-for"] = <<"1", ",", "2">>
    /\ client_ip = <<"1">>

\* C5: a Greeter invocation whose query parameters passed validate_parameters
\* ends with one response: 202 exactly when 'age' is present, non-empty and
\* below 18 (age '0' included), 200 otherwise; the message is 'Hello <name>!',
\* the status 'success', and age_provided the age as given, or None without one.
C5_StatusByAge ==
    (GreeterAccepted /\ pc = "done") =>
        LET qp == event["queryStringParameters"]
        IN  /\ Len(responses) = 1
            /\ responses[1].statusCode =
                  IF HasAge(qp) /\ int(qp["age"]) < 18 THEN 202 ELSE 200
            /\ responses[1].body.message = Hello \o qp["name"] \o <<"!">>
            /\ responses[1].body.status = "success"
            /\ responses[1].body.age_provided =
                  IF "age" \in DOMAIN qp THEN qp["age"] ELSE NoneStr

\* age '0' answered with 202
C5_Witness ==
    /\ GreeterAccepted /\ pc = "done"
    /\ Get(event["queryStringParameters"], "age", NoneStr) = <<"0">>
    /\ Len(responses) = 1
    /\ responses[1].statusCode = 202

\* C6: validate_parameters rejects exactly when the parameters are empty or
\* absent, or the trimmed name is empty, or a non-empty age is no integer, or
\* is one outside 0..150; the first failing check gives the error; and the
\* Greeter answers 400 'failed' without a 'headers' field exactly when it rejects.
C6_Rejected400 ==
    handler = "greeter" =>
        /\ (GreeterAccepted \/ GreeterRejected) =>
              (GreeterRejected <=> ExpectedError(EffectiveParams(event)) # NoneText)
        /\ GreeterRejected =>
              /\ error_message = ExpectedError(EffectiveParams(event))
              /\ pc = "done"
              /\ Len(responses) = 1
              /\ responses[1].statusCode = 400
              /\ responses[1].body.status = "failed"
              /\ responses[1].body.error = error_message
              /\ "headers" \notin DOMAIN responses[1]
        /\ \A i \in 1..Len(responses) :
              responses[i].statusCode = 400 => GreeterRejected

\* age '151' rejected with the range error
C6_Witness ==
    /\ GreeterRejected
    /\ Get(EffectiveParams(event), "age", NoneStr) = <<"1", "5", "1">>
    /\ Len(responses) = 1
    /\ responses[1].statusCode = 400
    /\ responses[1].body.error = "Age must be between 0 and 150"

\* C7: in both handlers no exception propagates to the caller, and every
\* invocation ends with exactly one response.
C7_NoExceptionEscapes ==
    /\ ~raised
    /\ Len(responses) <= 1
    /\ pc = "done" => Len(responses) = 1

\* the outcome of an IP-Extractor invocation once validate_request has returned;
\* contextFault says whether a context without aws_request_id is answered with 500
IpOutcome(contextFault) ==
    (IpValidated /\ pc = "done") =>
        /\ Len(responses) = 1
        /\ IF ~is_valid
           THEN /\ responses[1].statusCode = 403
                /\ client_ip = NoneStr
           ELSE /\ client_ip = get_client_ip(event)
                /\ IF ~TruthyStr(client_ip)
                   THEN /\ responses[1].statusCode = 400
                        /\ responses[1].body.error = "Could not determine client IP"
                   ELSE IF /\ contextFault
                           /\ ~context.isNone
                           /\ "aws_request_id" \notin DOMAIN context.attrs
                   THEN responses[1].statusCode = 500
                   ELSE /\ responses[1].statusCode = 200
                        /\ responses[1].body.client_ip = client_ip
                        /\ responses[1].body.request_id =
                              IF context.isNone THEN "local-test"
                              ELSE context.attrs["aws_request_id"]
                        /\ ("method" \in DOMAIN responses[1].body) <=> HasHttp(event)
                        /\ ("path" \in DOMAIN responses[1].body) <=> HasHttp(event)

C9_MetricsOnceBeforeSuccess ==
    handler = "greeter" =>
        /\ Len(metrics) <= 1
        /\ (GreeterAccepted /\ pc \in {"process", "metrics"}) =>
              metrics = <<>> /\ responses = <<>>
        /\ (GreeterAccepted /\ pc \in {"return", "done"}) =>
              /\ Len(metrics) = 1
              /\ metrics[1].requestId = ExpectedRequestId(event)
              /\ metrics[1].httpMethod = ExpectedHttpField(event, "method")
              /\ metrics[1].path = ExpectedHttpField(event, "path")
              /\ metrics[1].sourceIp = ExpectedHttpField(event, "sourceIp")
        /\ (GreeterAccepted /\ pc = "return") => responses = <<>>
        /\ (GreeterAccepted /\ pc = "done") =>
              /\ Len(responses) = 1
              /\ responses[1].statusCode = status_code
              /\ IsSuccessResponse(responses[1])
        /\ \A i \in 1..Len(responses) :
              responses[i].statusCode = 400 => metrics = <<>>

\* a success whose metrics line has 'N/A' for a sourceIp under a missing requestContext
C9_Witness ==
    /\ GreeterAccepted /\ pc = "done"
    /\ "requestContext" \notin DOMAIN event
    /\ Len(metrics) = 1
    /\ metrics[1].sourceIp = NA
    /\ Len(responses) = 1
    /\ IsSuccessResponse(responses[1])

\* C10: every success response of the Greeter greets the name exactly as given,
\* untrimmed; a name of whitespace only never gets a success response and, once
\* validated, is rejected with 400.
C10_NameEchoedUntrimmed ==
    handler = "greeter" =>
        LET qp == EffectiveParams(event)
            blank == "name" \in DOMAIN qp /\ qp["name"] # <<>> /\ AllWhitespace(qp["name"])
        IN  /\ \A i \in 1..Len(responses) :
                  IsSuccessResponse(responses[i]) =>
                      /\ ~blank
                      /\ responses[i].body.message = Hello \o qp["name"] \o <<"!">>
            /\ (blank /\ (GreeterAccepted \/ GreeterRejected)) =>
                  /\ GreeterRejected
                  /\ Len(responses) = 1
                  /\ responses[1].statusCode = 400

\* the name ' A' accepted and greeted with its leading blank
C10_Witness ==
    /\ GreeterAccepted /\ pc = "done"
    /\ event["queryStringParameters"]["name"] = <<" ", "A">>
    /\ Len(responses) = 1
    /\ responses[1].body.message = Hello \o <<" ", "A">> \o <<"!">>

====
